---- MODULE Spec2Model ----
(***************************************************************************)
(* Model of scripts/generate_avatar.py: one invocation of main() detects   *)
(* a face, warps it, and either patches the face texture of a template GLB *)
(* container (replace_texture_in_glb) or synthesises a standalone          *)
(* container (generate_standalone_avatar).                                 *)
(*                                                                         *)
(* The container is the pygltflib object graph: arenas of records that     *)
(* refer to each other by 0-based index, plus one binary blob.  Python's   *)
(* None is the value None; sequences are 1-based here, so index i of the   *)
(* source is element i + 1.                                                *)
(***************************************************************************)
EXTENDS Integers, Sequences, FiniteSets, TLC

VARIABLES pc, args, installed, template, png_bytes, saved, written, ret, runs, found,
          landmarks, paths, photo,
          warped_face, face_mask, original_texture, blended,
          script, env, stdout, exit_code, ppc

\* the state of main() of generate_avatar.py
main_vars == <<pc, args, installed, template, png_bytes, saved, written, ret, runs, found,
               landmarks, paths, photo>>

\* the arrays of the blend of replace_texture_in_glb
blend_vars == <<warped_face, face_mask, original_texture, blended>>

\* the state of a run of a pipeline script
pipe_vars == <<script, env, stdout, exit_code, ppc>>

vars == <<main_vars, blend_vars, pipe_vars>>

\* Python's Optional: None is the empty tuple, a present value v is <<v>>
None == <<>>

Some(v) == <<v>>

val(o) == o[1]

(***************************************************************************)
(* Bounds of the model.                                                    *)
(***************************************************************************)
\* longest initial byteLength of a BufferView of the template
MaxSlot == 2
\* longest encoded PNG payload
MaxPayload == 3
\* most bytes of GLB chunk padding that follow the declared buffer length
MaxSlack == 1
\* most invocations of main() in one behaviour
MaxRuns == 2

(***************************************************************************)
(* Strings: a name is a sequence of characters, so that str.lower() and    *)
(* the substring test `in` are computed and not assumed.                   *)
(***************************************************************************)
\* the upper-case letters that occur in the names, and their lower case
lower_table ==
    ("A" :> "a") @@ ("B" :> "b") @@ ("D" :> "d") @@ ("E" :> "e") @@ ("H" :> "h")
    @@ ("I" :> "i") @@ ("K" :> "k") @@ ("N" :> "n") @@ ("S" :> "s") @@ ("W" :> "w")

\* str.lower() on one character: only upper-case letters change
lower_char(c) == IF c \in DOMAIN lower_table THEN lower_table[c] ELSE c

\* str.lower()
lower(s) == [i \in 1..Len(s) |-> lower_char(s[i])]

\* the Python expression `sub in s` on strings
contains(sub, s) ==
    \E i \in 0..(Len(s) - Len(sub)) : SubSeq(s, i + 1, i + Len(sub)) = sub

\* the Python expression `name or ""`
or_empty(name) == IF name = None THEN <<>> ELSE val(name)

str_head == <<"h", "e", "a", "d">>

str_skin == <<"s", "k", "i", "n">>

(***************************************************************************)
(* _find_skin_image_index: the loops of the source, as recursive scans.    *)
(* Each returns an Optional image index.                                   *)
(***************************************************************************)
\* lines 180-185 (and 170-175): pbr -> baseColorTexture -> texture -> source
mat_image(gltf, mat) ==
    LET pbr == mat.pbrMetallicRoughness
    IN  IF pbr = None THEN None
        ELSE IF val(pbr).baseColorTexture = None THEN None
        ELSE gltf.textures[val(val(pbr).baseColorTexture).index + 1].source

\* lines 168-175: the image a primitive resolves to
prim_image(gltf, prim) ==
    IF prim.material = None THEN None
    ELSE mat_image(gltf, gltf.materials[val(prim.material) + 1])

RECURSIVE scan_primitives(_, _, _)
\* lines 167-175: the inner loop, from primitive k on
scan_primitives(gltf, prims, k) ==
    IF k > Len(prims) THEN None
    ELSE IF prim_image(gltf, prims[k]) # None THEN prim_image(gltf, prims[k])
    ELSE scan_primitives(gltf, prims, k + 1)

RECURSIVE scan_meshes(_, _)
\* lines 165-175: the outer loop of strategy 1, from mesh m on
scan_meshes(gltf, m) ==
    IF m > Len(gltf.meshes) THEN None
    ELSE LET mesh == gltf.meshes[m]
             hit == IF contains(str_head, lower(or_empty(mesh.name)))
                    THEN scan_primitives(gltf, mesh.primitives, 1)
                    ELSE None
         IN  IF hit # None THEN hit ELSE scan_meshes(gltf, m + 1)

RECURSIVE scan_materials(_, _)
\* lines 178-185: the loop of strategy 2, from material m on
scan_materials(gltf, m) ==
    IF m > Len(gltf.materials) THEN None
    ELSE LET mat == gltf.materials[m]
             hit == IF contains(str_skin, lower(or_empty(mat.name)))
                    THEN mat_image(gltf, mat)
                    ELSE None
         IN  IF hit # None THEN hit ELSE scan_materials(gltf, m + 1)

\* variant: strategy 2 is tried before strategy 1
_find_skin_materials_first(gltf) ==
    IF scan_materials(gltf, 1) # None THEN scan_materials(gltf, 1)
    ELSE scan_meshes(gltf, 1)

\* variant: image 0 is returned when neither strategy matches
_find_skin_or_first(gltf) ==
    IF scan_meshes(gltf, 1) # None THEN scan_meshes(gltf, 1)
    ELSE IF scan_materials(gltf, 1) # None THEN scan_materials(gltf, 1)
    ELSE IF Len(gltf.images) > 0 THEN Some(0)
    ELSE None

_find_skin_image_index(gltf) ==
    IF scan_meshes(gltf, 1) # None THEN scan_meshes(gltf, 1)
    ELSE scan_materials(gltf, 1)

(***************************************************************************)
(* Byte strings.  A blob is a sequence of bytes 0..255.                    *)
(***************************************************************************)
min(a, b) == IF a <= b THEN a ELSE b

max(a, b) == IF a >= b THEN a ELSE b

\* b"\x00" * n
zeros(n) == [i \in 1..n |-> 0]

\* the Python expression blob[i:j] for 0 <= i, j: both ends clamp to len(blob)
slice(blob, i, j) == SubSeq(blob, min(i, Len(blob)) + 1, min(j, Len(blob)))

\* the Python statement blob[i:j] = data on a bytearray, for 0 <= i, j
slice_assign(blob, i, j, data) ==
    LET lo == min(i, Len(blob))
        hi == max(lo, min(j, Len(blob)))
    IN  SubSeq(blob, 1, lo) \o data \o SubSeq(blob, hi + 1, Len(blob))

(***************************************************************************)
(* _extract_glb_image (lines 190-199).  The result is "None" when the      *)
(* image has no bufferView, "raise" when binary_blob() is None (slicing    *)
(* None raises TypeError), else the encoded bytes that are decoded.        *)
(***************************************************************************)
\* variant: a missing blob is read as an empty image instead of raising
_extract_glb_image_tolerant(gltf, image_index) ==
    LET img_info == gltf.images[image_index + 1]
    IN  IF img_info.bufferView = None THEN [kind |-> "None", img_data |-> <<>>]
        ELSE LET bv == gltf.bufferViews[val(img_info.bufferView) + 1]
             IN  [kind |-> "array",
                  img_data |-> IF gltf.blob = None THEN <<>>
                               ELSE slice(val(gltf.blob), bv.byteOffset,
                                          bv.byteOffset + bv.byteLength)]

_extract_glb_image(gltf, image_index) ==
    LET img_info == gltf.images[image_index + 1]
    IN  IF img_info.bufferView = None THEN [kind |-> "None", img_data |-> <<>>]
        ELSE LET bv == gltf.bufferViews[val(img_info.bufferView) + 1]
             IN  IF gltf.blob = None THEN [kind |-> "raise", img_data |-> <<>>]
                 ELSE [kind |-> "array",
                       img_data |-> slice(val(gltf.blob), bv.byteOffset,
                                          bv.byteOffset + bv.byteLength)]

(***************************************************************************)
(* replace_texture_in_glb, lines 255-281: the binary patch of the blob.    *)
(***************************************************************************)
\* variant: the whole old slot is replaced by the payload, without zero fill
patch_in_place_splice(gltf, b, png) ==
    LET bv == gltf.bufferViews[b]
    IN  [gltf EXCEPT !.blob = Some(slice_assign(val(gltf.blob), bv.byteOffset,
                                                bv.byteOffset + bv.byteLength, png)),
                     !.bufferViews[b].byteLength = Len(png)]

\* variant: the view keeps the old slot size as its byteLength
patch_in_place_keep_length(gltf, b, png) ==
    LET bv == gltf.bufferViews[b]
        blob1 == slice_assign(val(gltf.blob), bv.byteOffset,
                              bv.byteOffset + Len(png), png)
        blob2 == slice_assign(blob1, bv.byteOffset + Len(png),
                              bv.byteOffset + bv.byteLength,
                              zeros(bv.byteLength - Len(png)))
    IN  [gltf EXCEPT !.blob = Some(blob2)]

\* variant: the rest of the old slot keeps its old bytes
patch_in_place_no_fill(gltf, b, png) ==
    LET bv == gltf.bufferViews[b]
    IN  [gltf EXCEPT !.blob = Some(slice_assign(val(gltf.blob), bv.byteOffset,
                                                bv.byteOffset + Len(png), png)),
                     !.bufferViews[b].byteLength = Len(png)]

\* lines 264-268: overwrite in place, zero-fill the rest, shrink the view
patch_in_place(gltf, b, png) ==
    LET bv == gltf.bufferViews[b]
        old_length == bv.byteLength
        new_length == Len(png)
        blob1 == slice_assign(val(gltf.blob), bv.byteOffset,
                              bv.byteOffset + new_length, png)
        blob2 == slice_assign(blob1, bv.byteOffset + new_length,
                              bv.byteOffset + old_length,
                              zeros(old_length - new_length))
    IN  [gltf EXCEPT !.blob = Some(blob2),
                     !.bufferViews[b].byteLength = new_length]

\* variant: no padding before the append
pad4_none(blob) == blob

RECURSIVE pad4(_)
\* lines 271-273: append zero bytes until the length is a multiple of 4
pad4(blob) == IF Len(blob) % 4 # 0 THEN pad4(Append(blob, 0)) ELSE blob

\* variant: the old slot is zeroed when the image moves
relocate_append_reclaim(gltf, b, png) ==
    LET bv == gltf.bufferViews[b]
        cleared == slice_assign(val(gltf.blob), bv.byteOffset,
                                bv.byteOffset + bv.byteLength, zeros(bv.byteLength))
        padded == pad4(cleared)
        blob == padded \o png
        g1 == [gltf EXCEPT !.blob = Some(blob),
                           !.bufferViews[b].byteOffset = Len(padded),
                           !.bufferViews[b].byteLength = Len(png)]
    IN  IF Len(gltf.buffers) > 0
        THEN [g1 EXCEPT !.buffers[1].byteLength = Len(blob)]
        ELSE g1

\* variant: the declared length of the buffer is not updated
relocate_append_stale(gltf, b, png) ==
    LET padded == pad4(val(gltf.blob))
    IN  [gltf EXCEPT !.blob = Some(padded \o png),
                     !.bufferViews[b].byteOffset = Len(padded),
                     !.bufferViews[b].byteLength = Len(png)]

\* variant: the longer payload is spliced in at the old offset
relocate_append_splice(gltf, b, png) ==
    LET bv == gltf.bufferViews[b]
        blob == slice_assign(val(gltf.blob), bv.byteOffset,
                             bv.byteOffset + bv.byteLength, png)
        g1 == [gltf EXCEPT !.blob = Some(blob),
                           !.bufferViews[b].byteLength = Len(png)]
    IN  IF Len(gltf.buffers) > 0
        THEN [g1 EXCEPT !.buffers[1].byteLength = Len(blob)]
        ELSE g1

\* lines 270-278: append at the 4-aligned end and repoint the view
relocate_append(gltf, b, png) ==
    LET padded == pad4(val(gltf.blob))
        new_offset == Len(padded)
        blob == padded \o png
        g1 == [gltf EXCEPT !.blob = Some(blob),
                           !.bufferViews[b].byteOffset = new_offset,
                           !.bufferViews[b].byteLength = Len(png)]
    IN  IF Len(gltf.buffers) > 0
        THEN [g1 EXCEPT !.buffers[1].byteLength = Len(blob)]
        ELSE g1

\* variant: the MIME type is set on image 0, whichever image was located
patch_image_first(gltf, face_image_index, png) ==
    LET image == gltf.images[face_image_index + 1]
    IN  IF image.bufferView # None
        THEN LET b == val(image.bufferView) + 1
                 g1 == IF gltf.blob # None
                       THEN IF Len(png) <= gltf.bufferViews[b].byteLength
                            THEN patch_in_place(gltf, b, png)
                            ELSE relocate_append(gltf, b, png)
                       ELSE gltf
             IN  [g1 EXCEPT !.images[1].mimeType = "image/png"]
        ELSE gltf

\* lines 255-281
patch_image(gltf, face_image_index, png) ==
    LET image == gltf.images[face_image_index + 1]
    IN  IF image.bufferView # None
        THEN LET b == val(image.bufferView) + 1
                 g1 == IF gltf.blob # None
                       THEN IF Len(png) <= gltf.bufferViews[b].byteLength
                            THEN patch_in_place(gltf, b, png)
                            ELSE relocate_append(gltf, b, png)
                       ELSE gltf
             IN  [g1 EXCEPT !.images[face_image_index + 1].mimeType = "image/png"]
        ELSE gltf

(***************************************************************************)
(* replace_texture_in_glb (lines 202-285) as a whole.  `ret` is "True" or  *)
(* "False", or "raise" for an exception that leaves the function; `index`  *)
(* is face_image_index once line 220 has run; `out` is what gltf.save      *)
(* wrote, if it was reached.                                               *)
(***************************************************************************)
replace_texture_in_glb(has_pygltflib, gltf, png) ==
    IF ~has_pygltflib THEN [ret |-> "False", index |-> None, out |-> None]
    ELSE LET face_image_index == _find_skin_image_index(gltf)
         IN  IF face_image_index = None
             THEN [ret |-> "False", index |-> None, out |-> None]
             ELSE LET original == _extract_glb_image(gltf, val(face_image_index))
                  IN  IF original.kind = "raise"
                      THEN [ret |-> "raise", index |-> face_image_index, out |-> None]
                      ELSE IF original.kind = "None"
                      THEN [ret |-> "False", index |-> face_image_index, out |-> None]
                      ELSE [ret |-> "True", index |-> face_image_index,
                            out |-> Some(patch_image(gltf, val(face_image_index), png))]

(***************************************************************************)
(* generate_standalone_avatar (lines 328-494).                             *)
(***************************************************************************)
\* line 337: str.replace(".glb", ".png") on a path held as its components
replace_glb_png(path) ==
    [i \in 1..Len(path) |-> IF path[i] = ".glb" THEN ".png" ELSE path[i]]

\* variant: no rounding
align4_none(n) == n

\* lines 388-389: (n + 3) & ~3 clears the two low bits of n + 3
align4(n) == (n + 3) - ((n + 3) % 4)

\* numpy float32 tobytes(), little endian, of the values the quad uses
f32(x) ==
    CASE x = "0" -> <<0, 0, 0, 0>>
      [] x = "1" -> <<0, 0, 128, 63>>
      [] x = "0.5" -> <<0, 0, 0, 63>>
      [] x = "-0.5" -> <<0, 0, 0, 191>>

\* lines 378, 380: the six uint16 indices 0 1 2 0 2 3, little endian
indices_bytes == <<0, 0, 1, 0, 2, 0, 0, 0, 2, 0, 3, 0>>

\* lines 373-376, 381
vertices_bytes ==
    f32("-0.5") \o f32("-0.5") \o f32("0") \o f32("0.5") \o f32("-0.5") \o f32("0")
    \o f32("0.5") \o f32("0.5") \o f32("0") \o f32("-0.5") \o f32("0.5") \o f32("0")

\* lines 377, 382
uvs_bytes ==
    f32("0") \o f32("1") \o f32("1") \o f32("1")
    \o f32("1") \o f32("0") \o f32("0") \o f32("0")

\* lines 391-487: the container the builder saves
standalone_container(png) ==
    LET idx_len == Len(indices_bytes)
        vtx_len == Len(vertices_bytes)
        uv_len == Len(uvs_bytes)
        img_len == Len(png)
        d1 == indices_bytes \o zeros(align4(idx_len) - idx_len)
        vtx_offset == Len(d1)
        d2 == d1 \o vertices_bytes \o zeros(align4(vtx_len) - vtx_len)
        uv_offset == Len(d2)
        d3 == d2 \o uvs_bytes \o zeros(align4(uv_len) - uv_len)
        img_offset == Len(d3)
        buffer_data == d3 \o png \o zeros(align4(img_len) - img_len)
    IN  [meshes |-> << [name |-> None, primitives |-> << [material |-> Some(0)] >>] >>,
         materials |-> << [name |-> None,
                           pbrMetallicRoughness |->
                               Some([baseColorTexture |-> Some([index |-> 0])])] >>,
         textures |-> << [source |-> Some(0)] >>,
         images |-> << [bufferView |-> Some(3), mimeType |-> "image/png"] >>,
         bufferViews |-> << [buffer |-> 0, byteOffset |-> 0, byteLength |-> idx_len],
                            [buffer |-> 0, byteOffset |-> vtx_offset, byteLength |-> vtx_len],
                            [buffer |-> 0, byteOffset |-> uv_offset, byteLength |-> uv_len],
                            [buffer |-> 0, byteOffset |-> img_offset, byteLength |-> img_len] >>,
         buffers |-> << [byteLength |-> Len(buffer_data)] >>,
         blob |-> Some(buffer_data)]

\* lines 337-494: `texture` is always written first; the container only when
\* pygltflib imports (any exception in the try block gives False)
generate_standalone_avatar(has_pygltflib, png) ==
    IF has_pygltflib
    THEN [ret |-> "True", out |-> Some(standalone_container(png))]
    ELSE [ret |-> "False", out |-> None]

(***************************************************************************)
(* Template containers the invocations start from.  A template has two     *)
(* meshes, each with one primitive, two materials, two textures and two    *)
(* embedded images; bufferView 0 holds geometry, bufferViews 1 and 2 hold  *)
(* the images.  The views are packed one after the other, every view lies  *)
(* inside the declared buffer length, and the GLB chunk may carry padding  *)
(* bytes after it.                                                         *)
(***************************************************************************)
name_head == <<"W", "o", "l", "f", "3", "D", "_", "H", "e", "a", "d">>

name_body == <<"W", "o", "l", "f", "3", "D", "_", "B", "o", "d", "y">>

name_skin == <<"W", "o", "l", "f", "3", "D", "_", "S", "k", "i", "n">>

name_eye == <<"E", "y", "e">>

MeshNamePairs == { <<Some(name_head), Some(name_body)>>, <<Some(name_body), None>> }

MatNamePairs == { <<Some(name_body), Some(name_skin)>>, <<Some(name_body), Some(name_eye)>> }

\* a material whose base colour texture is texture t
material(name, t) ==
    [name |-> name,
     pbrMetallicRoughness |-> Some([baseColorTexture |-> Some([index |-> t])])]

\* the byte the template holds at position j of bufferView k
stamp(k, j) == 10 * (k + 1) + j

Template(meshNames, matNames, embedded, hasBlob, lens, slack) ==
    [meshes |-> << [name |-> meshNames[1], primitives |-> << [material |-> Some(0)] >>],
                   [name |-> meshNames[2], primitives |-> << [material |-> Some(1)] >>] >>,
     materials |-> << material(matNames[1], 0), material(matNames[2], 1) >>,
     textures |-> << [source |-> Some(0)], [source |-> Some(1)] >>,
     images |-> << [bufferView |-> IF embedded THEN Some(1) ELSE None,
                    mimeType |-> "image/jpeg"],
                   [bufferView |-> IF embedded THEN Some(2) ELSE None,
                    mimeType |-> "image/jpeg"] >>,
     bufferViews |-> << [buffer |-> 0, byteOffset |-> 0, byteLength |-> lens[1]],
                        [buffer |-> 0, byteOffset |-> lens[1], byteLength |-> lens[2]],
                        [buffer |-> 0, byteOffset |-> lens[1] + lens[2],
                         byteLength |-> lens[3]] >>,
     buffers |-> << [byteLength |-> lens[1] + lens[2] + lens[3]] >>,
     blob |-> IF hasBlob
              THEN Some([j \in 1..lens[1] |-> stamp(0, j)]
                        \o [j \in 1..lens[2] |-> stamp(1, j)]
                        \o [j \in 1..lens[3] |-> stamp(2, j)]
                        \o zeros(slack))
              ELSE None]

Templates ==
    { Template(mn, tn, TRUE, TRUE, lens, slack) :
          mn \in MeshNamePairs, tn \in MatNamePairs,
          lens \in [1..3 -> 1..MaxSlot], slack \in 0..MaxSlack }
    \cup
    { Template(mn, tn, e, h, [i \in 1..3 |-> 1], 0) :
          mn \in MeshNamePairs, tn \in MatNamePairs, e \in BOOLEAN, h \in BOOLEAN }

\* an encoded PNG of n bytes: the signature byte, then n - 1 bytes c
Payload(n, c) == [j \in 1..n |-> IF j = 1 THEN 137 ELSE c]

Payloads == { Payload(n, c) : n \in 1..MaxPayload, c \in {0, 80} }

(***************************************************************************)
(* The command line and the files.                                         *)
(***************************************************************************)
path_template == <<"template", ".glb">>

path_thumbnail == <<"thumb", ".png">>

OutputPaths == { <<"avatar", ".glb">> }

ArgSets ==
    [template : {None, Some(path_template)},
     thumbnail : {None, Some(path_thumbnail)},
     output : OutputPaths]

\* no file written yet
no_files == [p \in {} |-> "none"]

\* the files after `path` is (over)written with a file of kind `kind`
write(files, path, kind) ==
    [p \in DOMAIN files \cup {path} |-> IF p = path THEN kind ELSE files[p]]

(***************************************************************************)
(* The landmarks.  Of the 468 landmarks only the four anchors that         *)
(* extract_face_texture reads are kept, as integer pixel positions <<x, y>>.*)
(***************************************************************************)
\* the anchors of a face: eyes level, nose between and below, chin lowest
face_anchors ==
    [left_eye |-> <<0, 0>>, right_eye |-> <<2, 0>>, nose |-> <<1, 1>>, chin |-> <<1, 2>>]

\* anchors with the eyes level and the nose and the chin anywhere on a
\* 3 x 3 grid: faces, and detections whose anchors coincide or line up
AnchorSets ==
    { [left_eye |-> <<0, 0>>, right_eye |-> <<2, 0>>, nose |-> <<nx, ny>>,
       chin |-> <<cx, cy>>] :
          nx \in 0..2, ny \in 0..2, cx \in 0..2, cy \in 0..2 }

\* the file at --input: whether cv2.imread can read it, and the anchors of
\* the face in it (None: no face)
unreadable_photo == [readable |-> FALSE, face |-> None]

faceless_photo == [readable |-> TRUE, face |-> None]

face_photo(a) == [readable |-> TRUE, face |-> Some(a)]

Photos == {unreadable_photo, faceless_photo, face_photo(face_anchors)}

\* lines 45-82: None for an unreadable image (line 53) and for an image
\* without a face (line 73), else the landmarks (line 82)
get_face_landmarks(image) ==
    IF ~image.readable THEN None ELSE image.face

\* get_face_landmarks has not been called in this invocation
not_called == [called |-> FALSE, result |-> None]

Terminal == {"done", "exit1", "crash"}

\* no blend is in progress
blend_idle ==
    /\ warped_face = None
    /\ face_mask = None
    /\ original_texture = None
    /\ blended = None

\* no pipeline script is running
pipe_idle ==
    /\ script = "none"
    /\ env = None
    /\ stdout = <<>>
    /\ exit_code = None
    /\ ppc = "idle"

\* main() of generate_avatar.py is not running
main_idle ==
    /\ pc = "idle"
    /\ args = [template |-> None, thumbnail |-> None, output |-> <<"avatar", ".glb">>]
    /\ installed = TRUE
    /\ template = None
    /\ png_bytes = <<>>
    /\ saved = None
    /\ written = no_files
    /\ ret = "None"
    /\ runs = 1
    /\ found = None
    /\ landmarks = not_called
    /\ paths = {}
    /\ photo = unreadable_photo

(***************************************************************************)
(* The state machine.  pc is the position of main(): "start", "extract",   *)
(* "select", "thumb", then "done" (exit 0 after "Avatar generation         *)
(* complete!"), "exit1" (sys.exit(1)) or "crash" (uncaught exception).     *)
(* template is what the file at --template holds (None: no such file),     *)
(* saved is the container that gltf.save wrote in this invocation, written *)
(* maps every path written in this invocation to the kind of its content,  *)
(* found is face_image_index of replace_texture_in_glb, png_bytes the      *)
(* encoded texture, ret the value the path function returned, landmarks    *)
(* what get_face_landmarks returned, paths the branches of main entered in *)
(* this invocation, photo the file at --input.                             *)
(***************************************************************************)
Init ==
    /\ pc = "start"
    /\ args \in ArgSets
    /\ installed \in BOOLEAN
    /\ template \in {None} \cup { Some(t) : t \in Templates }
    /\ args.template = None => template = None
    /\ png_bytes = <<>>
    /\ saved = None
    /\ written = no_files
    /\ ret = "None"
    /\ runs = 1
    /\ found = None
    /\ landmarks = not_called
    /\ paths = {}
    /\ photo \in Photos
    /\ blend_idle
    /\ pipe_idle

\* main without the exit of lines 511-513
GetFaceLandmarks_no_exit ==
    /\ pc = "start"
    /\ landmarks' = [called |-> TRUE, result |-> get_face_landmarks(photo)]
    /\ pc' = "extract"
    /\ UNCHANGED <<args, installed, template, png_bytes, saved, written, ret, runs, found,
                   paths>>
    /\ UNCHANGED <<photo, blend_vars, pipe_vars>>

\* lines 510-513: without landmarks main exits with status 1
GetFaceLandmarks ==
    /\ pc = "start"
    /\ landmarks' = [called |-> TRUE, result |-> get_face_landmarks(photo)]
    /\ pc' = IF get_face_landmarks(photo) = None THEN "exit1" ELSE "extract"
    /\ UNCHANGED <<args, installed, template, png_bytes, saved, written, ret, runs, found,
                   paths>>
    /\ UNCHANGED <<photo, blend_vars, pipe_vars>>

\* lines 516-517: extract_face_texture (lines 85-159) solves for M from the
\* four anchors and warps; it has no test of the anchors and no raise, and
\* cv2.getPerspectiveTransform returns a matrix for any four points, so the
\* step completes for every landmarks value
ExtractFaceTexture ==
    /\ pc = "extract"
    /\ pc' = "select"
    /\ UNCHANGED <<args, installed, template, png_bytes, saved, written, ret, runs, found,
                   landmarks, paths>>
    /\ UNCHANGED <<photo, blend_vars, pipe_vars>>

\* the template branch with a fallback: a patch that returns False is
\* followed by the standalone builder
PatchPath_fallback ==
    /\ pc = "select"
    /\ args.template # None /\ template # None
    /\ \E png \in Payloads :
           LET r == replace_texture_in_glb(installed, val(template), png)
               s == generate_standalone_avatar(installed, png)
               w1 == write(written, replace_glb_png(args.output), "png")
           IN  IF r.ret = "False"
               THEN /\ ret' = s.ret
                    /\ found' = r.index
                    /\ saved' = s.out
                    /\ png_bytes' = png
                    /\ written' = IF s.out # None
                                  THEN write(w1, args.output, "container")
                                  ELSE w1
                    /\ pc' = "thumb"
                    /\ paths' = paths \cup {"patch", "standalone"}
               ELSE /\ ret' = r.ret
                    /\ found' = r.index
                    /\ saved' = r.out
                    /\ png_bytes' = IF r.ret = "True" THEN png ELSE <<>>
                    /\ written' = IF r.out # None
                                  THEN write(written, args.output, "container")
                                  ELSE written
                    /\ pc' = IF r.ret = "True" THEN "thumb" ELSE "crash"
                    /\ paths' = paths \cup {"patch"}
    /\ UNCHANGED <<args, installed, template, runs, landmarks>>
    /\ UNCHANGED <<photo, blend_vars, pipe_vars>>

\* lines 519-524: the template branch of main
PatchPath ==
    /\ pc = "select"
    /\ args.template # None /\ template # None
    /\ \E png \in Payloads :
           LET r == replace_texture_in_glb(installed, val(template), png)
           IN  /\ ret' = r.ret
               /\ found' = r.index
               /\ saved' = r.out
               /\ png_bytes' = IF r.ret = "True" THEN png ELSE <<>>
               /\ written' = IF r.out # None
                             THEN write(written, args.output, "container")
                             ELSE written
               /\ pc' = CASE r.ret = "True" -> "thumb"
                          [] r.ret = "False" -> "exit1"
                          [] r.ret = "raise" -> "crash"
    /\ paths' = paths \cup {"patch"}
    /\ UNCHANGED <<args, installed, template, runs, landmarks>>
    /\ UNCHANGED <<photo, blend_vars, pipe_vars>>

\* lines 525-528: the else branch; the result of the builder is dropped
StandalonePath ==
    /\ pc = "select"
    /\ ~(args.template # None /\ template # None)
    /\ \E png \in Payloads :
           LET r == generate_standalone_avatar(installed, png)
               texture_path == replace_glb_png(args.output)
               w1 == write(written, texture_path, "png")
           IN  /\ ret' = r.ret
               /\ saved' = r.out
               /\ png_bytes' = png
               /\ written' = IF r.out # None
                             THEN write(w1, args.output, "container")
                             ELSE w1
    /\ pc' = "thumb"
    /\ paths' = paths \cup {"standalone"}
    /\ UNCHANGED <<args, installed, template, runs, found, landmarks>>
    /\ UNCHANGED <<photo, blend_vars, pipe_vars>>

\* lines 530-534: the optional thumbnail, then the completion message
Finish ==
    /\ pc = "thumb"
    /\ written' = IF args.thumbnail # None
                  THEN write(written, val(args.thumbnail), "png")
                  ELSE written
    /\ pc' = "done"
    /\ UNCHANGED <<args, installed, template, png_bytes, saved, ret, runs, found,
                   landmarks, paths>>
    /\ UNCHANGED <<photo, blend_vars, pipe_vars>>

\* a further invocation of the script: its template is the same file as
\* before or the container the previous invocation saved
Invoke ==
    /\ pc \in Terminal
    /\ runs < MaxRuns
    /\ runs' = runs + 1
    /\ pc' = "start"
    /\ args' \in ArgSets
    /\ template' \in IF args'.template = None THEN {None} ELSE {template, saved}
    /\ png_bytes' = <<>>
    /\ saved' = None
    /\ written' = no_files
    /\ ret' = "None"
    /\ found' = None
    /\ landmarks' = not_called
    /\ paths' = {}
    /\ UNCHANGED installed
    /\ photo' \in Photos
    /\ UNCHANGED <<blend_vars, pipe_vars>>

Next ==
    \/ GetFaceLandmarks
    \/ ExtractFaceTexture
    \/ PatchPath
    \/ StandalonePath
    \/ Finish
    \/ Invoke

Spec == Init /\ [][Next]_vars

(***************************************************************************)
(* The locator on its own: _find_skin_image_index applied to resource      *)
(* graphs with named and unnamed meshes and materials and with complete    *)
(* and broken material chains.  A primitive has no material, material 0 or *)
(* material 1; material 0 is unnamed, a skin material or another material, *)
(* with or without pbrMetallicRoughness; material 1 is a skin material     *)
(* without texture, with texture 1, or with texture 2, which has no        *)
(* source.  Texture k < 2 refers to image k.                               *)
(***************************************************************************)
\* most meshes of a graph
MaxMeshes == 2
\* most primitives of a mesh
MaxPrims == 2

name_SKIN == <<"S", "K", "I", "N">>

LocatorPrim == [material : {None, Some(0), Some(1)}]

LocatorMeshNames == {None, Some(name_head), Some(name_body)}

\* up to MaxMeshes meshes of one primitive each, or one mesh of up to
\* MaxPrims primitives
LocatorMeshes ==
    UNION { [1..n -> [name : LocatorMeshNames, primitives : [1..1 -> LocatorPrim]]] :
                n \in 0..MaxMeshes }
    \cup
    { << [name |-> nm, primitives |-> ps] >> :
          nm \in LocatorMeshNames, ps \in UNION { [1..n -> LocatorPrim] : n \in 1..MaxPrims } }

LocatorMaterials ==
    { << [name |-> n0, pbrMetallicRoughness |-> p0],
         [name |-> Some(name_SKIN), pbrMetallicRoughness |-> p1] >> :
          n0 \in {None, Some(name_skin), Some(name_body)},
          p0 \in {None, Some([baseColorTexture |-> Some([index |-> 0])])},
          p1 \in {Some([baseColorTexture |-> None]),
                  Some([baseColorTexture |-> Some([index |-> 1])]),
                  Some([baseColorTexture |-> Some([index |-> 2])])} }

LocatorGraphs ==
    { [Template(<<None, None>>, <<None, None>>, TRUE, TRUE, [i \in 1..3 |-> 1], 0)
          EXCEPT !.meshes = ms, !.materials = mats,
                 !.textures = << [source |-> Some(0)], [source |-> Some(1)],
                                 [source |-> None] >>] :
          ms \in LocatorMeshes, mats \in LocatorMaterials }

LocatorInit ==
    /\ pc = "locate"
    /\ template \in { Some(g) : g \in LocatorGraphs }
    /\ args = [template |-> Some(path_template), thumbnail |-> None,
               output |-> <<"avatar", ".glb">>]
    /\ installed = TRUE
    /\ png_bytes = <<>>
    /\ saved = None
    /\ written = no_files
    /\ ret = "None"
    /\ runs = 1
    /\ found = None
    /\ landmarks = not_called
    /\ paths = {}
    /\ photo = face_photo(face_anchors)
    /\ blend_idle
    /\ pipe_idle

\* line 220: face_image_index = _find_skin_image_index(gltf)
Locate ==
    /\ pc = "locate"
    /\ found' = _find_skin_image_index(val(template))
    /\ pc' = "located"
    /\ UNCHANGED <<args, installed, template, png_bytes, saved, written, ret, runs,
                   landmarks, paths>>
    /\ UNCHANGED <<photo, blend_vars, pipe_vars>>

LocatorNext == Locate

LocatorSpec == LocatorInit /\ [][LocatorNext]_vars

(***************************************************************************)
(* The blend of replace_texture_in_glb (lines 230-245) on its own.  An     *)
(* array is its numpy shape and the value of one element (the blend is     *)
(* elementwise and cv2.resize keeps a constant image constant).            *)
(***************************************************************************)
\* longest side of a texture, in pixels
MaxTex == 2

\* the values of a uint8 element
uint8 == 0..255

\* element values used where all shapes and all mask values are tried
PixelSamples == {0, 100, 255}

\* an array of the given shape filled with v
array(shape, v) == [shape |-> shape, value |-> v]

\* what stands for the ValueError numpy raises when shapes do not broadcast
broadcast_error == array(<<>>, -1)

\* lines 234-237: cv2.resize(img, (tex_w, tex_h)) keeps the channel axis
resize(img, tex_w, tex_h) ==
    [img EXCEPT !.shape = <<tex_h, tex_w>> \o SubSeq(img.shape, 3, Len(img.shape))]

\* the blend with the two weights exchanged
blend_values_swapped(w, o, m) ==
    { (w * (255 - m) + o * m) \div 255 }

\* lines 240-245 on one element: alpha = m / 255.0 in float32, then
\* (w * alpha + o * (1.0 - alpha)).astype(np.uint8), which truncates.
\* n is 255 times the exact sum.  alpha is exact only when 255 divides m;
\* then both products and the sum are exact.  Otherwise the rounded sum is
\* within 1/255 of the exact one, so truncation can only differ from the
\* exact floor when the exact sum is a positive integer, by falling to the
\* integer below.
blend_values(w, o, m) ==
    LET n == w * m + o * (255 - m)
    IN  IF m % 255 = 0 \/ n % 255 # 0 \/ n = 0
        THEN { n \div 255 }
        ELSE { n \div 255, n \div 255 - 1 }

\* lines 230-245: the arrays blended can be, as a set
blend(warped, mask, orig) ==
    LET tex_h == orig.shape[1]
        tex_w == orig.shape[2]
        differs == warped.shape[1] # tex_h \/ warped.shape[2] # tex_w
        warped_r == IF differs THEN resize(warped, tex_w, tex_h) ELSE warped
        mask_r == IF differs THEN resize(mask, tex_w, tex_h) ELSE mask
        alpha_3d_shape == mask_r.shape \o <<3>>
    IN  IF warped_r.shape # alpha_3d_shape \/ orig.shape # alpha_3d_shape
        THEN { broadcast_error }
        ELSE { array(warped_r.shape, v) :
                   v \in blend_values(warped_r.value, orig.value, mask_r.value) }

\* the arrays of one blend
blend_inputs(warped, mask, orig) ==
    /\ warped_face = Some(warped)
    /\ face_mask = Some(mask)
    /\ original_texture = Some(orig)

\* the inputs: every pair of element values under the two extreme masks,
\* and sampled values under every mask value and every pair of shapes.
\* The warped texture is square (line 129).
BlendInit ==
    /\ main_idle
    /\ pipe_idle
    /\ \/ \E w \in uint8, o \in uint8, m \in {0, 255} :
              blend_inputs(array(<<1, 1, 3>>, w), array(<<1, 1>>, m),
                           array(<<1, 1, 3>>, o))
       \/ \E w \in PixelSamples, o \in PixelSamples, m \in uint8 :
              \E s \in 1..MaxTex, h \in 1..MaxTex, x \in 1..MaxTex :
                  blend_inputs(array(<<s, s, 3>>, w), array(<<s, s>>, m),
                               array(<<h, x, 3>>, o))
    /\ blended = None

\* lines 230-245
Blend ==
    /\ blended = None
    /\ blended' \in { Some(b) : b \in blend(val(warped_face), val(face_mask),
                                           val(original_texture)) }
    /\ UNCHANGED <<warped_face, face_mask, original_texture>>
    /\ UNCHANGED <<main_vars, pipe_vars>>

BlendNext == Blend

BlendSpec == BlendInit /\ [][BlendNext]_vars

(***************************************************************************)
(* The standalone branch of main over more output paths: with and without  *)
(* the ".glb" suffix, with an upper-case suffix, and below a directory     *)
(* whose name contains ".glb"; and over more photos: every position of the *)
(* nose and of the chin on a 3 x 3 grid.  No template is in use.           *)
(***************************************************************************)
StandaloneOutputPaths ==
    { <<"avatar", ".glb">>,
      <<"avatar">>,
      <<"avatar", ".GLB">>,
      <<"run", ".glb", "/", "avatar", ".glb">> }

StandaloneInit ==
    /\ pc = "start"
    /\ args \in [template : {None, Some(path_template)},
                 thumbnail : {None, Some(path_thumbnail)},
                 output : StandaloneOutputPaths]
    /\ installed \in BOOLEAN
    /\ template = None
    /\ png_bytes = <<>>
    /\ saved = None
    /\ written = no_files
    /\ ret = "None"
    /\ runs = 1
    /\ found = None
    /\ landmarks = not_called
    /\ paths = {}
    /\ photo \in {unreadable_photo, faceless_photo} \cup { face_photo(a) : a \in AnchorSets }
    /\ blend_idle
    /\ pipe_idle

StandaloneNext ==
    \/ GetFaceLandmarks
    \/ ExtractFaceTexture
    \/ StandalonePath
    \/ Finish

StandaloneSpec == StandaloneInit /\ [][StandaloneNext]_vars

(***************************************************************************)
(* The pipeline scripts generate_nano.py, image_to_3d.py, moshi_tts.py and *)
(* generate_visemes.py.  Each prints JSON status records on stdout; stdout *)
(* is the sequence of records printed so far, exit_code the exit status of *)
(* the process once it has ended, ppc the position of its main().  env is  *)
(* the environment of the run: whether the input file exists, whether a    *)
(* package that check_dependencies tests is missing, whether the optional  *)
(* package (tsr, moshi, musetalk) imports, and which call into a library   *)
(* raises (0: none), with an ImportError or with another exception, and    *)
(* whether that call raises again when the same statements run again.      *)
(* Calls are counted as they execute.                                      *)
(***************************************************************************)
Scripts == {"generate_nano", "image_to_3d", "moshi_tts", "generate_visemes"}

Envs ==
    [input_exists : BOOLEAN, missing : BOOLEAN, optional : BOOLEAN,
     fails : 0..6, import_error : BOOLEAN, repeats : BOOLEAN]

\* the value of args.output
output_path == "output"

\* json.dumps({"status": "progress", "step": ..., "message": ...})
progress(step, message) ==
    [status |-> "progress", step |-> step, message |-> message]

\* json.dumps({"status": "error", "error": ...})
error(text) == [status |-> "error", error |-> text]

\* a call into a library, which may raise
call == [status |-> "call"]

\* the k-th call of the statements prog raises (k = 0 or k beyond the last
\* call: none does): the records printed, whether an exception left prog,
\* and the number of calls made
run(prog, k) ==
    LET calls == { i \in 1..Len(prog) : prog[i].status = "call" }
        nth(i) == Cardinality({ j \in calls : j <= i })
        at == { i \in calls : nth(i) = k }
        cut == IF k = 0 \/ at = {} THEN Len(prog) + 1 ELSE CHOOSE i \in at : TRUE
    IN  [out |-> SelectSeq(SubSeq(prog, 1, cut - 1), LAMBDA x : x.status # "call"),
         raised |-> cut <= Len(prog),
         made |-> Cardinality({ j \in calls : j <= cut })]

\* the failure index for the statements after a part that made `made` calls
rest(k, r) == IF r.raised \/ k <= r.made THEN 0 ELSE k - r.made

\* the end of a process: an uncaught exception prints a traceback on stderr
\* and exits with status 1
ended(out, raised) == [out |-> out, code |-> IF raised THEN 1 ELSE 0]

\* generate_nano.py lines 68-132
generate_nano_banana(e) ==
    LET r == run(<< call,
                    progress("loading_model", "Loading Stable Diffusion model..."),
                    call,
                    progress("loading_image", "Loading input image..."),
                    call,
                    progress("generating", "Generating Nano Banana image..."),
                    call,
                    [status |-> "success", output |-> output_path,
                     message |-> "Nano Banana image generated successfully"] >>,
                 e.fails)
    IN  ended(r.out, r.raised)

\* image_to_3d.py lines 70-124: without tsr an error record and sys.exit(1)
convert_image_to_3d(e) ==
    LET head == run(<< call,
                       progress("loading_model", "Loading TripoSR model...") >>,
                    e.fails)
        body == run(<< call,
                       progress("processing_image", "Processing input image..."),
                       call,
                       progress("generating_3d", "Generating 3D mesh..."),
                       call,
                       progress("extracting_mesh", "Extracting mesh..."),
                       call,
                       progress("saving", "Saving GLB model..."),
                       call,
                       [status |-> "success", output |-> output_path,
                        file_size |-> "file_size", message |-> "3D model saved"] >>,
                    rest(e.fails, head))
    IN  IF head.raised THEN ended(head.out, TRUE)
        ELSE IF ~e.optional
        THEN [out |-> head.out \o << error("TripoSR not found") >>, code |-> 1]
        ELSE ended(head.out \o body.out, body.raised)

\* moshi_tts.py lines 78-130: the placeholder audio
placeholder_audio(k) ==
    run(<< progress("generating_placeholder", "Generating placeholder audio"),
           call,
           [status |-> "success", output |-> output_path, duration |-> "duration",
            message |-> "Placeholder audio generated"] >>,
        k)

\* moshi_tts.py lines 51-130: an ImportError in the try block, from the
\* import or from a later call, leads to the fallback
synthesize_speech(e) ==
    LET moshi == run(<< progress("moshi", "Using Moshi TTS..."),
                        call,
                        [status |-> "success", output |-> output_path,
                         message |-> "Speech synthesized with Moshi"] >>,
                     e.fails)
        tried == IF e.optional THEN moshi ELSE [out |-> <<>>, raised |-> TRUE, made |-> 0]
        fallback == placeholder_audio(IF e.optional THEN rest(e.fails, moshi) ELSE e.fails)
    IN  IF ~tried.raised THEN ended(tried.out, FALSE)
        ELSE IF e.optional /\ ~e.import_error THEN ended(tried.out, TRUE)
        ELSE ended(tried.out \o << progress("fallback", "Moshi not available") >>
                       \o fallback.out,
                   fallback.raised)

\* generate_visemes.py lines 62-138
generate_basic_visemes(k) ==
    run(<< call,
           progress("loading_audio", "Loading audio..."),
           call,
           progress("analyzing", "Analyzing audio..."),
           call,
           [status |-> "success", output |-> output_path, frames |-> "frames",
            duration |-> "duration", message |-> "Generated viseme frames"] >>,
        k)

\* generate_visemes.py lines 147-164: an ImportError that leaves the try
\* block, from the imports or from generate_basic_visemes, leads to the
\* fallback, which calls generate_basic_visemes again
generate_musetalk_visemes(e) ==
    LET musetalk == << progress("musetalk", "Using MuseTalk for lip-sync...") >>
        fallback == << progress("fallback", "MuseTalk not available") >>
        first == generate_basic_visemes(e.fails)
        again == generate_basic_visemes(IF e.repeats THEN e.fails ELSE 0)
    IN  IF ~e.optional
        THEN ended(fallback \o first.out, first.raised)
        ELSE IF first.raised /\ e.import_error
        THEN ended(musetalk \o first.out \o fallback \o again.out, again.raised)
        ELSE ended(musetalk \o first.out, first.raised)

\* print an error record, then sys.exit(1)
exit_error(text) ==
    /\ stdout' = Append(stdout, error(text))
    /\ exit_code' = Some(1)
    /\ ppc' = "exited"

\* go on in main
proceed(to) ==
    /\ ppc' = to
    /\ UNCHANGED <<stdout, exit_code>>

\* the process runs the work function and ends
finish(r) ==
    /\ stdout' = stdout \o r.out
    /\ exit_code' = Some(r.code)
    /\ ppc' = "exited"

\* main: `if not os.path.exists(...)`, an error record and sys.exit(1)
input_check ==
    IF env.input_exists
    THEN proceed("check_dependencies")
    ELSE exit_error("Input file not found")

\* check_dependencies that goes on after the error record
check_dependencies_no_exit ==
    IF env.missing
    THEN /\ stdout' = Append(stdout, error("Missing dependencies"))
         /\ ppc' = "work"
         /\ UNCHANGED exit_code
    ELSE proceed("work")

\* check_dependencies: a missing package gives an error record and
\* sys.exit(1)
check_dependencies ==
    IF env.missing THEN exit_error("Missing dependencies") ELSE proceed("work")

\* a step of the script `name` at position `at`
step(name, at, doing) ==
    /\ script = name
    /\ ppc = at
    /\ doing
    /\ UNCHANGED <<script, env>>
    /\ UNCHANGED <<main_vars, blend_vars>>

PipelineInit ==
    /\ main_idle
    /\ blend_idle
    /\ script \in Scripts
    /\ env \in Envs
    /\ stdout = <<>>
    /\ exit_code = None
    /\ ppc = "main"

NanoMain == step("generate_nano", "main", input_check)

NanoCheckDependencies == step("generate_nano", "check_dependencies", check_dependencies)

NanoGenerate == step("generate_nano", "work", finish(generate_nano_banana(env)))

Image3dMain == step("image_to_3d", "main", input_check)

Image3dCheckDependencies == step("image_to_3d", "check_dependencies", check_dependencies)

Image3dConvert == step("image_to_3d", "work", finish(convert_image_to_3d(env)))

\* moshi_tts.py has no input file to test
MoshiMain == step("moshi_tts", "main", proceed("check_dependencies"))

MoshiCheckDependencies == step("moshi_tts", "check_dependencies", check_dependencies)

MoshiSynthesize == step("moshi_tts", "work", finish(synthesize_speech(env)))

VisemesMain == step("generate_visemes", "main", input_check)

VisemesCheckDependencies == step("generate_visemes", "check_dependencies", check_dependencies)

VisemesGenerate == step("generate_visemes", "work", finish(generate_musetalk_visemes(env)))

PipelineNext ==
    \/ NanoMain
    \/ NanoCheckDependencies
    \/ NanoGenerate
    \/ Image3dMain
    \/ Image3dCheckDependencies
    \/ Image3dConvert
    \/ MoshiMain
    \/ MoshiCheckDependencies
    \/ MoshiSynthesize
    \/ VisemesMain
    \/ VisemesCheckDependencies
    \/ VisemesGenerate

PipelineSpec == PipelineInit /\ [][PipelineNext]_vars

(***************************************************************************)
(* Properties.  After a successful patch the state holds the container     *)
(* before it (template), the container after it (saved) and the payload    *)
(* (png_bytes), so each property of the patch is a state predicate.        *)
(***************************************************************************)
\* main took the template branch (line 519)
OnPatchPath == args.template # None /\ template # None

\* replace_texture_in_glb returned True in this invocation
PatchDone == OnPatchPath /\ ret = "True"

before == val(template)

after == val(saved)

\* the image the locator found in the template, and its bufferView (1-based)
face == val(found)

faceBV == val(before.images[face + 1].bufferView) + 1

InPlaceCase == PatchDone /\ Len(png_bytes) <= before.bufferViews[faceBV].byteLength

RelocateCase == PatchDone /\ Len(png_bytes) > before.bufferViews[faceBV].byteLength

\* the half-open byte range of a bufferView, as a set of 0-based positions
range(bv) == bv.byteOffset .. (bv.byteOffset + bv.byteLength - 1)

\* the blob bytes of a bufferView, read one position at a time
bytes_of(gltf, bv) == [j \in 1..bv.byteLength |-> val(gltf.blob)[bv.byteOffset + j]]

\* C1: in the in-place case (new payload length <= old byteLength) the blob
\* keeps its length and every other BufferView keeps its byteOffset.
C1_InPlaceKeepsLengthAndOffsets ==
    InPlaceCase =>
        /\ Len(val(after.blob)) = Len(val(before.blob))
        /\ \A k \in 1..Len(before.bufferViews) :
               k # faceBV =>
                   after.bufferViews[k].byteOffset = before.bufferViews[k].byteOffset

\* an in-place patch that is shorter than its slot, in front of another view
C1_Witness ==
    /\ InPlaceCase
    /\ Len(png_bytes) < before.bufferViews[faceBV].byteLength
    /\ faceBV < Len(before.bufferViews)

\* C2: in the relocate case (new payload length > old byteLength) the new
\* byteOffset of the patched BufferView is a multiple of 4 and the declared
\* byteLength of its Buffer equals the length of the blob after the append.
C2_RelocateAlignedAndDeclared ==
    RelocateCase =>
        /\ after.bufferViews[faceBV].byteOffset % 4 = 0
        /\ after.buffers[after.bufferViews[faceBV].buffer + 1].byteLength
               = Len(val(after.blob))

\* a relocation from a blob whose length is not a multiple of 4
C2_Witness == RelocateCase /\ Len(val(before.blob)) % 4 # 0

\* C3: round trip: the locator applied to the written container finds an
\* image whose BufferView range holds exactly the new payload bytes.
C3_RoundTrip ==
    PatchDone =>
        LET again == _find_skin_image_index(after)
        IN  /\ again # None
            /\ LET bv == after.bufferViews[val(after.images[val(again) + 1].bufferView) + 1]
               IN  /\ bv.byteLength = Len(png_bytes)
                   /\ bv.byteOffset + bv.byteLength <= Len(val(after.blob))
                   /\ bytes_of(after, bv) = png_bytes
            /\ _extract_glb_image(after, val(again)).img_data = png_bytes

\* a patch in place with a payload shorter than the slot it replaces
C3_Witness ==
    /\ InPlaceCase
    /\ Len(png_bytes) < before.bufferViews[faceBV].byteLength
    /\ runs = 1

\* C4: every other BufferView whose range does not overlap the old slot of
\* the patched image keeps its byteOffset, its byteLength and its bytes; in
\* the relocate case the first old-blob-length bytes of the blob are kept.
C4_OtherResourcesIntact ==
    /\ PatchDone =>
           \A k \in 1..Len(before.bufferViews) :
               (k # faceBV
                /\ range(before.bufferViews[k]) \cap range(before.bufferViews[faceBV]) = {})
               => /\ after.bufferViews[k] = before.bufferViews[k]
                  /\ bytes_of(after, after.bufferViews[k])
                         = bytes_of(before, before.bufferViews[k])
    /\ RelocateCase =>
           SubSeq(val(after.blob), 1, Len(val(before.blob))) = val(before.blob)

\* a relocation of the image in the middle of the blob, another view behind it
C4_Witness == RelocateCase /\ faceBV = 2 /\ runs = 1

\* every BufferView range lies within the declared length of its Buffer and
\* the ranges of different BufferViews are pairwise disjoint
Layout(gltf) ==
    /\ \A k \in 1..Len(gltf.bufferViews) :
           LET bv == gltf.bufferViews[k]
           IN  /\ bv.byteOffset >= 0
               /\ bv.byteOffset + bv.byteLength <= gltf.buffers[bv.buffer + 1].byteLength
    /\ \A k, l \in 1..Len(gltf.bufferViews) :
           k # l => range(gltf.bufferViews[k]) \cap range(gltf.bufferViews[l]) = {}

\* C5: layout invariant: after any sequence of patches, in place or
\* relocating, every BufferView range lies within its Buffer's declared
\* length and the ranges of different resources are pairwise disjoint.
C5_LayoutInvariant ==
    /\ template # None => Layout(before)
    /\ saved # None => Layout(after)

\* a relocating patch applied to a container that an earlier patch wrote
C5_Witness ==
    /\ RelocateCase
    /\ runs = 2
    /\ before \notin Templates
    /\ before.images[face + 1].mimeType = "image/png"

(***************************************************************************)
(* The resolution order of the locator, stated over the whole graph.       *)
(***************************************************************************)
\* `name` is present and contains `word` when case is ignored
names(name, word) ==
    /\ name # None
    /\ \E i \in 0..(Len(val(name)) - Len(word)) :
           \A j \in 1..Len(word) : lower_char(val(name)[i + j]) = word[j]

\* the images that the base colour chain of material m (1-based) reaches
reached(gltf, m) ==
    { i \in 0..(Len(gltf.images) - 1) :
          LET pbr == gltf.materials[m].pbrMetallicRoughness
          IN  /\ pbr # None
              /\ val(pbr).baseColorTexture # None
              /\ gltf.textures[val(val(pbr).baseColorTexture).index + 1].source = Some(i) }

\* <<mesh, primitive, image>> for every complete chain below a head mesh
head_hits(gltf) ==
    { h \in (1..Len(gltf.meshes)) \X (1..MaxPrims + 1) \X (0..(Len(gltf.images) - 1)) :
          /\ names(gltf.meshes[h[1]].name, str_head)
          /\ h[2] <= Len(gltf.meshes[h[1]].primitives)
          /\ gltf.meshes[h[1]].primitives[h[2]].material # None
          /\ h[3] \in reached(gltf, val(gltf.meshes[h[1]].primitives[h[2]].material) + 1) }

\* <<material, image>> for every complete chain of a skin material
skin_hits(gltf) ==
    { h \in (1..Len(gltf.materials)) \X (0..(Len(gltf.images) - 1)) :
          names(gltf.materials[h[1]].name, str_skin) /\ h[2] \in reached(gltf, h[1]) }

first_head_hit(gltf) ==
    CHOOSE h \in head_hits(gltf) :
        \A g \in head_hits(gltf) : h[1] < g[1] \/ (h[1] = g[1] /\ h[2] <= g[2])

first_skin_hit(gltf) ==
    CHOOSE h \in skin_hits(gltf) : \A g \in skin_hits(gltf) : h[1] <= g[1]

\* C6: the locator returns the image of the first complete chain below a
\* mesh named "head" (meshes, then primitives, in order); only when there is
\* none, the image of the first material named "skin" with a complete chain;
\* else None.  Names match case-insensitively and unnamed entities never do.
C6_LocatorPriority ==
    pc = "located" =>
        found = IF head_hits(before) # {} THEN Some(first_head_hit(before)[3])
                ELSE IF skin_hits(before) # {} THEN Some(first_skin_hit(before)[2])
                ELSE None

\* a head mesh that wins over a skin material that names another image
C6_Witness ==
    /\ pc = "located"
    /\ head_hits(before) # {}
    /\ skin_hits(before) # {}
    /\ first_head_hit(before)[3] # first_skin_hit(before)[2]
    /\ found = Some(first_head_hit(before)[3])

\* no mesh name contains "head" and no material name contains "skin"
NoNameMatches(gltf) ==
    /\ \A m \in 1..Len(gltf.meshes) : ~names(gltf.meshes[m].name, str_head)
    /\ \A m \in 1..Len(gltf.materials) : ~names(gltf.materials[m].name, str_skin)

\* the template branch of main has run in this invocation
PatchRan == OnPatchPath /\ ret # "None"

\* C7: when no mesh or material name of the template matches, the patch
\* returns False, main exits non-zero and no file is created.
C7_NoMatchNoOutput ==
    (PatchRan /\ NoNameMatches(before)) =>
        /\ ret = "False"
        /\ pc = "exit1"
        /\ saved = None
        /\ written = no_files

\* a template with an embedded blob and images, but no matching name
C7_Witness ==
    /\ PatchRan
    /\ NoNameMatches(before)
    /\ installed
    /\ before.blob # None
    /\ before.images[1].bufferView # None
    /\ pc = "exit1"

\* C8: when the template has no binary blob the patch ends in an error
\* outcome, gltf.save is never reached and nothing is written.
C8_NoBlobNoOutput ==
    (PatchRan /\ before.blob = None) =>
        /\ ret \in {"False", "raise"}
        /\ pc \in {"exit1", "crash"}
        /\ saved = None
        /\ written = no_files

\* a template without blob whose face image is found and has a bufferView
C8_Witness ==
    /\ PatchRan
    /\ before.blob = None
    /\ found # None
    /\ before.images[val(found) + 1].bufferView # None
    /\ ret = "raise"
    /\ pc = "crash"

\* C9: a successful patch keeps the shape of the resource graph: it changes
\* only the located image's mimeType (to image/png), the byteOffset and
\* byteLength of that image's BufferView and, when relocating, the declared
\* byteLength of the Buffer.
C9_GraphShapeKept ==
    PatchDone =>
        /\ after.meshes = before.meshes
        /\ after.materials = before.materials
        /\ after.textures = before.textures
        /\ Len(after.images) = Len(before.images)
        /\ \A i \in 1..Len(before.images) :
               /\ after.images[i].bufferView = before.images[i].bufferView
               /\ i # face + 1 => after.images[i] = before.images[i]
        /\ after.images[face + 1].mimeType = "image/png"
        /\ Len(after.bufferViews) = Len(before.bufferViews)
        /\ \A k \in 1..Len(before.bufferViews) :
               /\ after.bufferViews[k].buffer = before.bufferViews[k].buffer
               /\ k # faceBV => after.bufferViews[k] = before.bufferViews[k]
        /\ Len(after.buffers) = Len(before.buffers)
        /\ InPlaceCase =>
               /\ after.buffers = before.buffers
               /\ after.bufferViews[faceBV].byteOffset
                      = before.bufferViews[faceBV].byteOffset

\* a successful patch of image 1 of a template whose images are JPEG
C9_Witness ==
    /\ PatchDone
    /\ face = 1
    /\ before.images[2].mimeType = "image/jpeg"
    /\ after.images[1].mimeType = "image/jpeg"

\* C10: every failure of an invocation ends it with a failure outcome: an
\* invocation whose patch or standalone builder failed never ends with
\* exit 0 after "Avatar generation complete!".
C10_FailureIsTerminal == pc = "done" => ret \notin {"False", "raise"}

\* C11: when pygltflib is not installed, no file (container or loose PNG)
\* has been written at the moment the missing dependency is detected, on the
\* patch path and on the standalone path alike.
C11_NoWriteBeforeMissingDependency ==
    (~installed /\ ret = "False" /\ pc \in {"thumb", "exit1"}) => written = no_files

\* get_face_landmarks returned None in this invocation
NoFace == landmarks.called /\ landmarks.result = None

\* C12: when get_face_landmarks returns None the invocation ends with
\* exit status 1 before any other step: no container, no loose PNG and no
\* thumbnail is written, and neither the patch path nor the standalone path
\* is entered.
C12_NoFaceNoOutput ==
    NoFace =>
        /\ pc = "exit1"
        /\ written = no_files
        /\ saved = None
        /\ paths = {}
        /\ ret = "None"

\* a second invocation that found no face, with a thumbnail requested
C12_Witness ==
    /\ NoFace
    /\ pc = "exit1"
    /\ runs = 2
    /\ args.thumbnail # None

\* the invocation got past face detection (line 510)
PastDetection == landmarks.called /\ landmarks.result # None

\* main is past the branch of lines 519-528
PathChosen == PastDetection /\ pc \in {"thumb", "done", "exit1", "crash"}

\* C13: in every invocation that gets past face detection exactly one of
\* the patch path and the standalone path runs; the standalone path runs
\* iff no template was supplied or the supplied template path does not
\* exist; a failed patch never triggers the standalone path in the same
\* invocation.
C13_PathSelection ==
    /\ paths \subseteq {"patch", "standalone"}
    /\ IF PathChosen THEN Cardinality(paths) = 1 ELSE paths = {}
    /\ "standalone" \in paths <=>
           (PathChosen /\ (args.template = None \/ template = None))
    /\ ("patch" \in paths /\ ret \in {"False", "raise"}) =>
           (paths = {"patch"} /\ pc \in {"exit1", "crash"})

\* a patch that failed, with nothing else run after it
C13_Witness ==
    /\ paths = {"patch"}
    /\ ret = "False"
    /\ pc = "exit1"
    /\ installed

\* the points p, q, r lie on one line: the cross product of q - p and
\* r - p vanishes
collinear(p, q, r) ==
    (q[1] - p[1]) * (r[2] - p[2]) - (q[2] - p[2]) * (r[1] - p[1]) = 0

\* some 3 of the 4 source anchor keypoints are collinear
AnyThreeCollinear(a) ==
    \/ collinear(a.left_eye, a.right_eye, a.nose)
    \/ collinear(a.left_eye, a.right_eye, a.chin)
    \/ collinear(a.left_eye, a.nose, a.chin)
    \/ collinear(a.right_eye, a.nose, a.chin)

\* C14: whenever 3 of the 4 source anchors are collinear,
\* extract_face_texture fails and the caller aborts face processing: main
\* never gets past the extraction and writes nothing.
C14_CollinearAnchorsAbort ==
    (PastDetection /\ AnyThreeCollinear(val(landmarks.result))) =>
        (pc \in {"extract", "exit1", "crash"} /\ paths = {} /\ written = no_files)

\* the blend has been computed
Blended == blended # None /\ val(blended) # broadcast_error

\* C15: with mask value 255 the blend is exactly the warped value, with
\* mask value 0 exactly the original value, for every pair of values in
\* 0..255; for any mask value the output has the original texture's height
\* and width and 3 colour channels.
C15_BlendExtremes ==
    blended # None =>
        /\ val(blended) # broadcast_error
        /\ val(face_mask).value = 255 => val(blended).value = val(warped_face).value
        /\ val(face_mask).value = 0 => val(blended).value = val(original_texture).value
        /\ val(blended).shape = val(original_texture).shape
        /\ val(blended).shape[3] = 3

\* a fully masked element of a resized warped texture
C15_Witness ==
    /\ Blended
    /\ val(face_mask).value = 255
    /\ val(warped_face).value = 255
    /\ val(original_texture).value = 100
    /\ val(warped_face).shape = <<1, 1, 3>>
    /\ val(original_texture).shape = <<2, 1, 3>>

\* C16: in the in-place case the patched BufferView keeps its byteOffset,
\* its byteLength becomes the new payload length, the Buffer's declared
\* byteLength is unchanged, and every blob byte in
\* [offset + new_length, offset + old_length) is zero after the patch.
C16_InPlaceShrinkAndZeroFill ==
    InPlaceCase =>
        LET old == before.bufferViews[faceBV]
            new == after.bufferViews[faceBV]
        IN  /\ new.byteOffset = old.byteOffset
            /\ new.byteLength = Len(png_bytes)
            /\ after.buffers[new.buffer + 1].byteLength
                   = before.buffers[old.buffer + 1].byteLength
            /\ \A j \in (old.byteOffset + Len(png_bytes)) ..
                        (old.byteOffset + old.byteLength - 1) :
                   val(after.blob)[j + 1] = 0

\* a payload one byte shorter than a slot whose last byte was not zero
C16_Witness ==
    /\ InPlaceCase
    /\ Len(png_bytes) + 1 = before.bufferViews[faceBV].byteLength
    /\ LET old == before.bufferViews[faceBV]
       IN  val(before.blob)[old.byteOffset + old.byteLength] # 0

\* the standalone builder saved a container in this invocation
StandaloneDone == "standalone" \in paths /\ saved # None

\* n rounded up to a multiple of 4
roundup4(n) == CHOOSE k \in n..(n + 3) : k % 4 = 0

\* C17: the standalone container has exactly four BufferViews holding, in
\* this order, the indices, the positions, the UVs and the image bytes;
\* each byteOffset is a multiple of 4 and is the previous view's offset plus
\* its length rounded up to a multiple of 4, each byteLength is the unpadded
\* payload length, no two views overlap, and the Buffer's declared
\* byteLength is the blob length, the sum of the four rounded lengths.
C17_StandaloneLayout ==
    StandaloneDone =>
        LET bvs == after.bufferViews
            payloads == <<indices_bytes, vertices_bytes, uvs_bytes, png_bytes>>
        IN  /\ Len(bvs) = 4
            /\ \A k \in 1..4 :
                   /\ bytes_of(after, bvs[k]) = payloads[k]
                   /\ bvs[k].byteLength = Len(payloads[k])
                   /\ bvs[k].byteOffset % 4 = 0
                   /\ bvs[k].byteOffset =
                          IF k = 1 THEN 0
                          ELSE bvs[k - 1].byteOffset + roundup4(bvs[k - 1].byteLength)
            /\ \A j, k \in 1..4 : j # k => range(bvs[j]) \cap range(bvs[k]) = {}
            /\ Len(after.buffers) = 1
            /\ after.buffers[1].byteLength = Len(val(after.blob))
            /\ Len(val(after.blob)) =
                   roundup4(Len(indices_bytes)) + roundup4(Len(vertices_bytes))
                   + roundup4(Len(uvs_bytes)) + roundup4(Len(png_bytes))

\* a standalone container whose image needs 1 byte of padding
C17_Witness ==
    /\ StandaloneDone
    /\ Len(png_bytes) % 4 = 3
    /\ Len(val(after.blob)) = after.bufferViews[4].byteOffset + Len(png_bytes) + 1

\* the directory part of a path: the components up to the last "/"
dirname(path) ==
    LET seps == { i \in 1..Len(path) : path[i] = "/" }
    IN  IF seps = {} THEN <<>>
        ELSE SubSeq(path, 1, CHOOSE i \in seps : \A j \in seps : j <= i)

\* C18: on the standalone path, for every output path, after a successful
\* run the loose PNG exists at a path different from the container's output
\* path and in the same directory, and the file at the output path is the
\* container.
C18_LoosePngIsSibling ==
    (StandaloneDone /\ ret = "True") =>
        /\ args.output \in DOMAIN written
        /\ written[args.output] = "container"
        /\ \E p \in DOMAIN written :
               /\ p # args.output
               /\ args.thumbnail # Some(p)
               /\ written[p] = "png"
               /\ dirname(p) = dirname(args.output)

\* the records that end a run
terminal_record(r) == r.status \in {"success", "error"}

\* C19: every status record of a pipeline script has state progress,
\* success or error; a progress record carries a step and a message, a
\* success record the output path, an error record the error text; a run
\* emits at most one success-or-error record, which is the last record
\* emitted; and an error record is followed by a non-zero exit.
C19_StatusRecordProtocol ==
    /\ \A i \in 1..Len(stdout) :
           LET r == stdout[i]
           IN  /\ r.status \in {"progress", "success", "error"}
               /\ r.status = "progress" => {"step", "message"} \subseteq DOMAIN r
               /\ r.status = "success" =>
                      ("output" \in DOMAIN r /\ r.output = output_path)
               /\ r.status = "error" => "error" \in DOMAIN r
               /\ terminal_record(r) => i = Len(stdout)
    /\ (stdout # <<>> /\ stdout[Len(stdout)].status = "error") =>
           (exit_code # None /\ val(exit_code) # 0)

\* image_to_3d without tsr: a progress record, then the error record
C19_Witness ==
    /\ script = "image_to_3d"
    /\ Len(stdout) = 2
    /\ stdout[1].status = "progress"
    /\ stdout[2].status = "error"
    /\ exit_code = Some(1)

\* C20: over any sequence of patches of one container, each output being
\* the next template, the blob never gets shorter; a payload longer than
\* the current byteLength of the view is relocated to the end of the blob,
\* also when it would fit into the slot the view had before an in-place
\* patch shrank it; and a relocation grows the blob by the payload length
\* plus 0 to 3 padding bytes, the new offset being at least the previous
\* blob length.
C20_BlobGrowsMonotonically ==
    PatchDone =>
        LET old_len == Len(val(before.blob))
            new_len == Len(val(after.blob))
            new == after.bufferViews[faceBV]
        IN  /\ new_len >= old_len
            /\ RelocateCase =>
                   /\ new.byteOffset >= old_len
                   /\ new.byteOffset + Len(png_bytes) = new_len
                   /\ new_len - old_len - Len(png_bytes) \in 0..3
            /\ InPlaceCase => new_len = old_len

\* the second patch of a chain: the first shrank the view in place and left
\* a gap in front of the next view, the second payload would fit into the
\* old slot and is relocated all the same
C20_Witness ==
    /\ runs = 2
    /\ RelocateCase
    /\ faceBV = 2
    /\ LET bv == before.bufferViews[2]
           slot_end == before.bufferViews[3].byteOffset
       IN  /\ bv.byteOffset + bv.byteLength < slot_end
           /\ bv.byteOffset + Len(png_bytes) <= slot_end
           /\ after.bufferViews[2].byteOffset >= Len(val(before.blob))

====
